---- MODULE Spec2Model ----
(***************************************************************************)
(* A model of auto-annoy (src/main.py): the per-guild state document, its  *)
(* persistence with retry, the guild-state accessor with owner healing,    *)
(* the self-demotion confirmation map, and the event handlers on_ready,    *)
(* on_message, /admin, /target, /setmessage and /info.                     *)
(*                                                                         *)
(* Each handler is one action.  A handler's inputs (guild, executor, user, *)
(* action, text, the outcome of every attempt to write the state file) are *)
(* drawn from small sets.  The clock is an integer number of seconds; the  *)
(* value of now is what datetime.now().timestamp() returns in the handler. *)
(***************************************************************************)
EXTENDS Integers, Sequences, FiniteSets, TLC

VARIABLES
    state,      \* the global state dict: guild key -> guild config
    disk,       \* the content of state.json
    pending,    \* pending_confirmations: "guild_user" -> timestamp
    now,        \* the wall clock, in seconds
    faults,     \* failed write attempts so far (bounded by MaxFaults)
    out,        \* what the last handler sent and did: response, replies, save traces
    tasks,      \* the handler coroutines in flight: slot -> stage, command, response
    running     \* the coroutine that holds the event loop, None when the loop is free

vars == <<state, disk, pending, now, faults, out, tasks, running>>

(***************************************************************************)
(* Bounds of the model.                                                    *)
(***************************************************************************)
MaxTime == 61
MaxFaults == 3
MaxCalls == 3
MaxTasks == 2

(***************************************************************************)
(* Program constants.                                                      *)
(***************************************************************************)
MAX_SAVE_RETRIES == 3
ConfirmationWindow == 60

(***************************************************************************)
(* The environment: guilds, their owners, users, bot accounts, texts.      *)
(***************************************************************************)
None == 0
ClientUser == 5
Guilds == {1, 2}
OwnerOf(g) == IF g = 1 THEN 1 ELSE 2
BotUsers == {4, ClientUser}
IsBot_Never(u) == FALSE
IsBot(u) == u \in BotUsers
Executors(g) == IF g = 1 THEN {1, 2, 3} ELSE {2, 3}
AdminArgs(g) == IF g = 1 THEN {1, 2, 4} ELSE {2, 3}
TargetArgs(g) == IF g = 1 THEN {3, 4} ELSE {}
Authors(g) == IF g = 1 THEN {2, 3, 4, ClientUser} ELSE {3}
Texts(g) == IF g = 1 THEN {"", "pong"} ELSE {}
TimeSteps == {30, 31}

(***************************************************************************)
(* Python values: dicts as functions on their key set, lists as sequences. *)
(***************************************************************************)
EmptyDict == [k \in {} |-> 0]
DictPut(d, k, v) == [x \in DOMAIN d \cup {k} |-> IF x = k THEN v ELSE d[x]]
DictDel(d, k) == [x \in DOMAIN d \ {k} |-> d[x]]
Elems(l) == {l[i] : i \in 1..Len(l)}
FirstIndex(l, x) == CHOOSE i \in 1..Len(l) : l[i] = x /\ \A j \in 1..(i - 1) : l[j] # x
ListRemove_Keep(l, x) == l
ListRemove(l, x) ==
    LET i == FirstIndex(l, x)
    IN  SubSeq(l, 1, i - 1) \o SubSeq(l, i + 1, Len(l))
GuildKey_Shared(guild_id) == "1"
GuildKey(guild_id) == ToString(guild_id)
ConfirmationKey_GuildOnly(guild_id, user_id) == ToString(guild_id)
ConfirmationKey(guild_id, user_id) == ToString(guild_id) \o "_" \o ToString(user_id)

(***************************************************************************)
(* The state file.  open(STATE_FILE, 'w') truncates the file before        *)
(* json.dump writes it, so a write attempt has three outcomes: "ok";       *)
(* "fail_open" (open raised, the file is untouched); "fail_write" (the     *)
(* file was opened and truncated and the dump or the flush raised, which   *)
(* leaves an empty or partial file that is not valid JSON).                *)
(***************************************************************************)
WriteOutcomes == {"ok", "fail_open", "fail_write"}
MissingFile == [kind |-> "missing", doc |-> EmptyDict]
CorruptFile == [kind |-> "corrupt", doc |-> EmptyDict]
ValidFile(doc) == [kind |-> "valid", doc |-> doc]

(***************************************************************************)
(* load_state: ReadFile is the body of the try block, whose result is the  *)
(* parsed data or the exception it raises; Caught tells which exceptions   *)
(* the except clauses handle; LoadResult is what the caller gets.          *)
(***************************************************************************)
ReadFile(file, readable) ==
    IF file.kind = "missing" THEN [data |-> EmptyDict, error |-> "none"]
    ELSE IF ~readable THEN [data |-> EmptyDict, error |-> "IOError"]
    ELSE IF file.kind = "corrupt" THEN [data |-> EmptyDict, error |-> "JSONDecodeError"]
    ELSE [data |-> file.doc, error |-> "none"]
Caught_DecodeOnly(error) == error = "JSONDecodeError"
Caught(error) == error \in {"JSONDecodeError", "IOError", "Exception"}
LoadResult(file, readable) ==
    LET r == ReadFile(file, readable)
    IN  IF r.error = "none" THEN [doc |-> r.data, raised |-> FALSE]
        ELSE IF Caught(r.error) THEN [doc |-> EmptyDict, raised |-> FALSE]
        ELSE [doc |-> EmptyDict, raised |-> TRUE]
load_state(file, readable) == LoadResult(file, readable).doc

SleepBeforeRetry_Always(attempt) == TRUE
SleepBeforeRetry(attempt) == attempt < MAX_SAVE_RETRIES - 1

RECURSIVE SaveAttempts(_, _, _, _, _)
SaveAttempts(doc, file, run, attempt, trace) ==
    IF attempt >= MAX_SAVE_RETRIES
    THEN [file |-> file, trace |-> trace, raised |-> TRUE]
    ELSE IF run[attempt + 1] = "ok"
         THEN [file |-> ValidFile(doc), trace |-> Append(trace, "ok"), raised |-> FALSE]
         ELSE LET file2 == IF run[attempt + 1] = "fail_write" THEN CorruptFile ELSE file
                  trace2 == Append(trace, run[attempt + 1])
                  trace3 == IF SleepBeforeRetry(attempt)
                            THEN Append(trace2, "sleep") ELSE trace2
              IN  SaveAttempts(doc, file2, run, attempt + 1, trace3)

(***************************************************************************)
(* A handler works on a context c: the state dict, the file, the           *)
(* confirmation map, the traces of the save_state calls made so far, and   *)
(* runs, the write outcomes of the handler's successive save_state calls.  *)
(* raised tells whether the last save_state call raised IOError.           *)
(***************************************************************************)
save_state_KeepsFile(c) ==
    LET r == SaveAttempts(c.state, c.disk, c.runs[Len(c.saves) + 1], 0, <<>>)
    IN  [c EXCEPT !.saves = Append(@, [trace |-> r.trace, raised |-> r.raised]),
                  !.raised = r.raised]
save_state(c) ==
    LET r == SaveAttempts(c.state, c.disk, c.runs[Len(c.saves) + 1], 0, <<>>)
    IN  [c EXCEPT !.disk = r.file, !.saves = Append(@, [trace |-> r.trace, raised |-> r.raised]),
                  !.raised = r.raised]

NewGuild(owner_id) ==
    [adminIDs |-> IF owner_id # None THEN <<owner_id>> ELSE <<>>,
     targetIDs |-> <<>>,
     message |-> ""]

OwnerMissing_Never(admins, owner_id) == FALSE
OwnerMissing_Always(admins, owner_id) == owner_id # None
OwnerMissing(admins, owner_id) == owner_id # None /\ owner_id \notin Elems(admins)

get_guild_state_RollsBack(c, guild_id, owner_id) ==
    LET key == GuildKey(guild_id)
    IN  IF key \notin DOMAIN c.state
        THEN [c EXCEPT !.state = DictPut(@, key, NewGuild(owner_id))]
        ELSE IF OwnerMissing(c.state[key].adminIDs, owner_id)
             THEN LET c1 == save_state([c EXCEPT !.state[key].adminIDs = Append(@, owner_id)])
                  IN  IF c1.raised THEN [c1 EXCEPT !.state = c.state] ELSE c1
             ELSE c
get_guild_state(c, guild_id, owner_id) ==
    LET key == GuildKey(guild_id)
    IN  IF key \notin DOMAIN c.state
        THEN [c EXCEPT !.state = DictPut(@, key, NewGuild(owner_id))]
        ELSE IF OwnerMissing(c.state[key].adminIDs, owner_id)
             THEN save_state([c EXCEPT !.state[key].adminIDs = Append(@, owner_id)])
             ELSE c

is_admin_Everyone(c, guild_id, user_id, owner_id) == [c |-> c, ret |-> TRUE]
is_admin(c, guild_id, user_id, owner_id) ==
    IF user_id = owner_id
    THEN [c |-> c, ret |-> TRUE]
    ELSE LET c1 == get_guild_state(c, guild_id, owner_id)
         IN  [c |-> c1, ret |-> user_id \in Elems(c1.state[GuildKey(guild_id)].adminIDs)]

is_target(c, guild_id, user_id, owner_id) ==
    LET c1 == get_guild_state(c, guild_id, owner_id)
    IN  [c |-> c1, ret |-> user_id \in Elems(c1.state[GuildKey(guild_id)].targetIDs)]

request_confirmation(c, guild_id, user_id, t) ==
    [c EXCEPT !.pending = DictPut(@, ConfirmationKey(guild_id, user_id), t)]

WithinWindow_Exclusive(request_time, current_time) ==
    current_time - request_time < ConfirmationWindow
WithinWindow(request_time, current_time) ==
    current_time - request_time <= ConfirmationWindow

check_confirmation(c, guild_id, user_id, t) ==
    LET key == ConfirmationKey(guild_id, user_id)
    IN  IF key \notin DOMAIN c.pending
        THEN [c |-> c, ret |-> FALSE]
        ELSE IF WithinWindow(c.pending[key], t)
             THEN [c |-> c, ret |-> TRUE]
             ELSE [c |-> [c EXCEPT !.pending = DictDel(@, key)], ret |-> FALSE]

clear_confirmation(c, guild_id, user_id) ==
    LET key == ConfirmationKey(guild_id, user_id)
    IN  IF key \in DOMAIN c.pending
        THEN [c EXCEPT !.pending = DictDel(@, key)]
        ELSE c

(***************************************************************************)
(* The end of every mutating command: save_state, then the success         *)
(* response, or the failed-to-save response when save_state raised.        *)
(***************************************************************************)
SaveAndReport_AlwaysSuccess(c, success) == [c |-> save_state(c), resp |-> success]
SaveAndReport(c, success) ==
    LET c1 == save_state(c)
    IN  [c |-> c1, resp |-> IF c1.raised THEN "save_failed" ELSE success]

Reject(c, resp) == [c |-> c, resp |-> resp]

AlreadyAdmin_OwnerOnly(admins, user_id, owner_id) == user_id = owner_id
AlreadyAdmin_Never(admins, user_id, owner_id) == FALSE
AlreadyAdmin(admins, user_id, owner_id) == user_id \in Elems(admins) \/ user_id = owner_id

RemovingOwner_Never(user_id, owner_id) == FALSE
RemovingOwner(user_id, owner_id) == user_id = owner_id

admin_add(c, key, user_id, owner_id) ==
    IF IsBot(user_id)
    THEN Reject(c, "cannot_add_bot_admin")
    ELSE IF AlreadyAdmin(c.state[key].adminIDs, user_id, owner_id)
         THEN Reject(c, "already_admin")
         ELSE SaveAndReport([c EXCEPT !.state[key].adminIDs = Append(@, user_id)],
                            "admin_added")

admin_remove(c, guild_id, key, executor_id, user_id, owner_id, t) ==
    IF RemovingOwner(user_id, owner_id)
    THEN Reject(c, "cannot_remove_owner")
    ELSE IF user_id \notin Elems(c.state[key].adminIDs)
    THEN Reject(c, "not_an_admin")
    ELSE IF user_id = executor_id
    THEN LET chk == check_confirmation(c, guild_id, executor_id, t)
         IN  IF chk.ret
             THEN SaveAndReport(
                      clear_confirmation(
                          [chk.c EXCEPT !.state[key].adminIDs = ListRemove(@, user_id)],
                          guild_id, executor_id),
                      "self_removed")
             ELSE Reject(request_confirmation(chk.c, guild_id, executor_id, t),
                         "confirm_prompt")
    ELSE SaveAndReport([c EXCEPT !.state[key].adminIDs = ListRemove(@, user_id)],
                       "admin_removed")

admin_command(c, guild_id, executor_id, action, user_id, t) ==
    LET owner_id == OwnerOf(guild_id)
        auth == is_admin(c, guild_id, executor_id, owner_id)
        c1 == get_guild_state(auth.c, guild_id, None)
        key == GuildKey(guild_id)
    IN  IF ~auth.ret
        THEN Reject(auth.c, "no_permission")
        ELSE IF action = "add"
             THEN admin_add(c1, key, user_id, owner_id)
             ELSE admin_remove(c1, guild_id, key, executor_id, user_id, owner_id, t)

target_command(c, guild_id, executor_id, action, user_id) ==
    LET owner_id == OwnerOf(guild_id)
        auth == is_admin(c, guild_id, executor_id, owner_id)
        c1 == get_guild_state(auth.c, guild_id, owner_id)
        key == GuildKey(guild_id)
    IN  IF ~auth.ret
        THEN Reject(auth.c, "no_permission")
        ELSE IF action = "add"
             THEN IF IsBot(user_id)
                  THEN Reject(c1, "cannot_add_bot_target")
                  ELSE IF user_id \in Elems(c1.state[key].targetIDs)
                       THEN Reject(c1, "already_target")
                       ELSE SaveAndReport(
                                [c1 EXCEPT !.state[key].targetIDs = Append(@, user_id)],
                                "target_added")
             ELSE IF user_id \notin Elems(c1.state[key].targetIDs)
                  THEN Reject(c1, "not_a_target")
                  ELSE SaveAndReport(
                           [c1 EXCEPT !.state[key].targetIDs = ListRemove(@, user_id)],
                           "target_removed")

setmessage_command(c, guild_id, executor_id, text) ==
    LET owner_id == OwnerOf(guild_id)
        auth == is_admin(c, guild_id, executor_id, owner_id)
        c1 == get_guild_state(auth.c, guild_id, owner_id)
        key == GuildKey(guild_id)
    IN  IF ~auth.ret
        THEN Reject(auth.c, "no_permission")
        ELSE SaveAndReport([c1 EXCEPT !.state[key].message = text], "message_set")

info_command(c, guild_id) ==
    Reject(get_guild_state(c, guild_id, OwnerOf(guild_id)), "info")

(***************************************************************************)
(* on_message: guild_id is None for a direct message.  The result is the   *)
(* context and the list of replies requested.                              *)
(***************************************************************************)
MessageConfigured_Always(reply_message) == TRUE
MessageConfigured(reply_message) == reply_message # ""

on_message(c, guild_id, author_id) ==
    IF author_id = ClientUser
    THEN [c |-> c, replies |-> <<>>]
    ELSE IF guild_id = None
    THEN [c |-> c, replies |-> <<>>]
    ELSE LET owner_id == OwnerOf(guild_id)
             tgt == is_target(c, guild_id, author_id, owner_id)
             c1 == get_guild_state(tgt.c, guild_id, owner_id)
             reply_message == c1.state[GuildKey(guild_id)].message
         IN  IF tgt.ret
             THEN IF MessageConfigured(reply_message)
                  THEN [c |-> c1, replies |-> <<reply_message>>]
                  ELSE [c |-> c1, replies |-> <<>>]
             ELSE [c |-> tgt.c, replies |-> <<>>]

(***************************************************************************)
(* Write outcomes of a handler.  A run gives the outcome of each of the    *)
(* up to MAX_SAVE_RETRIES attempts of one save_state call; the attempts    *)
(* after the first "ok" are never made, so they are fixed to "ok".  A      *)
(* handler calls save_state at most twice (owner healing, then the         *)
(* command's own save).                                                    *)
(***************************************************************************)
FailuresOf(run) ==
    IF \E i \in 1..MAX_SAVE_RETRIES : run[i] = "ok"
    THEN (CHOOSE i \in 1..MAX_SAVE_RETRIES :
              run[i] = "ok" /\ \A j \in 1..(i - 1) : run[j] # "ok") - 1
    ELSE MAX_SAVE_RETRIES
Runs ==
    {run \in [1..MAX_SAVE_RETRIES -> WriteOutcomes] :
        \A i \in 1..MAX_SAVE_RETRIES :
            run[i] = "ok" => \A j \in i..MAX_SAVE_RETRIES : run[j] = "ok"}
AllOk == [i \in 1..MAX_SAVE_RETRIES |-> "ok"]
NoFailure == <<AllOk, AllOk>>
RunsTable ==
    [n \in 1..2 |-> [budget \in 1..MaxFaults |->
        {runs \in [1..2 -> Runs] :
            /\ \A i \in (n + 1)..2 : runs[i] = AllOk
            /\ FailuresOf(runs[1]) + FailuresOf(runs[2]) <= budget}]]
RunsWithin(n, budget) ==
    IF budget = 0 THEN {NoFailure}
    ELSE IF n = 0 THEN {NoFailure}
    ELSE RunsTable[n][budget]
Context(runs) ==
    [state |-> state, disk |-> disk, pending |-> pending,
     saves |-> <<>>, runs |-> runs, raised |-> FALSE]
FailedAttempts(saves) ==
    LET F(i) == Cardinality({j \in 1..Len(saves[i].trace) :
                                 saves[i].trace[j] \in {"fail_open", "fail_write"}})
    IN  (IF Len(saves) >= 1 THEN F(1) ELSE 0) + (IF Len(saves) >= 2 THEN F(2) ELSE 0)
Quiet == [resp |-> "", replies |-> <<>>, saves |-> <<>>]

Commit(c, resp, replies) ==
    /\ state' = c.state
    /\ disk' = c.disk
    /\ pending' = c.pending
    /\ faults' = faults + FailedAttempts(c.saves)
    /\ out' = [resp |-> resp, replies |-> replies, saves |-> c.saves]
    /\ UNCHANGED <<now, tasks, running>>

(***************************************************************************)
(* The actions: one per handler.  budget is the number of write attempts   *)
(* the environment may still fail.                                         *)
(***************************************************************************)
AdminCommand(g, e, a, u, budget) ==
    \E runs \in RunsWithin(Len(admin_command(Context(NoFailure), g, e, a, u, now).c.saves),
                           budget) :
        LET r == admin_command(Context(runs), g, e, a, u, now)
        IN  Commit(r.c, r.resp, <<>>)

TargetCommand(g, e, a, u, budget) ==
    \E runs \in RunsWithin(Len(target_command(Context(NoFailure), g, e, a, u).c.saves),
                           budget) :
        LET r == target_command(Context(runs), g, e, a, u)
        IN  Commit(r.c, r.resp, <<>>)

SetMessageCommand(g, e, text, budget) ==
    \E runs \in RunsWithin(Len(setmessage_command(Context(NoFailure), g, e, text).c.saves),
                           budget) :
        LET r == setmessage_command(Context(runs), g, e, text)
        IN  Commit(r.c, r.resp, <<>>)

InfoCommand(g, budget) ==
    \E runs \in RunsWithin(Len(info_command(Context(NoFailure), g).c.saves), budget) :
        LET r == info_command(Context(runs), g)
        IN  Commit(r.c, r.resp, <<>>)

OnMessage(g, author, budget) ==
    \E runs \in RunsWithin(Len(on_message(Context(NoFailure), g, author).c.saves), budget) :
        LET r == on_message(Context(runs), g, author)
        IN  Commit(r.c, "", r.replies)

OnReady(readable) ==
    /\ state' = IF LoadResult(disk, readable).raised THEN state ELSE load_state(disk, readable)
    /\ out' = [Quiet EXCEPT !.resp = IF LoadResult(disk, readable).raised THEN "load_error" ELSE ""]
    /\ UNCHANGED <<disk, pending, now, faults, tasks, running>>

Tick(d) ==
    /\ now + d <= MaxTime
    /\ now' = now + d
    /\ out' = Quiet
    /\ UNCHANGED <<state, disk, pending, faults, tasks, running>>

IdleTask == [pc |-> "idle", kind |-> "", resp |-> ""]
NoTasks == [t \in 1..MaxTasks |-> IdleTask]

Init ==
    /\ state = EmptyDict
    /\ disk = MissingFile
    /\ pending = EmptyDict
    /\ now = 0
    /\ faults = 0
    /\ out = Quiet
    /\ tasks = NoTasks
    /\ running = None

Events(G, budget) ==
    \/ \E g \in G : \E e \in Executors(g), a \in {"add", "remove"}, u \in AdminArgs(g) :
           AdminCommand(g, e, a, u, budget)
    \/ \E g \in G : \E e \in Executors(g), a \in {"add", "remove"}, u \in TargetArgs(g) :
           TargetCommand(g, e, a, u, budget)
    \/ \E g \in G : \E e \in Executors(g), text \in Texts(g) : SetMessageCommand(g, e, text, budget)
    \/ \E g \in G : InfoCommand(g, budget)
    \/ \E g \in G : \E author \in Authors(g) : OnMessage(g, author, budget)
    \/ \E author \in Authors(1) : OnMessage(None, author, budget)
    \/ \E readable \in BOOLEAN : OnReady(readable)

(***************************************************************************)
(* Spec: both guilds, every write succeeds, the clock stands still.        *)
(* SpecTime: guild 1 with a running clock.                                 *)
(* SpecFaults: guild 1 with up to MaxFaults failing write attempts.        *)
(***************************************************************************)
Next == Events(Guilds, 0)
Spec == Init /\ [][Next]_vars

NextTime == Events({1}, 0) \/ \E d \in TimeSteps : Tick(d)
SpecTime == Init /\ [][NextTime]_vars

NextFaults == Events({1}, MaxFaults - faults)
SpecFaults == Init /\ [][NextFaults]_vars

(***************************************************************************)
(* SpecAccessor: get_guild_state on its own.  The state dict starts as any *)
(* document the commands can build for guild 1 (member lists without       *)
(* repetition over the users 1..3) with the file holding that document;    *)
(* each step is one call of the accessor, with or without the owner id.    *)
(***************************************************************************)
Lists(S) ==
    {l \in UNION {[1..n -> S] : n \in 0..Cardinality(S)} :
        \A i, j \in 1..Len(l) : l[i] = l[j] => i = j}
Documents ==
    {EmptyDict}
    \cup {DictPut(EmptyDict, GuildKey(1),
                  [adminIDs |-> admins, targetIDs |-> targets, message |-> message]) :
              admins \in Lists({1, 2, 3}), targets \in {<<>>, <<3>>}, message \in {"", "pong"}}

InitAccessor ==
    /\ state \in Documents
    /\ disk = IF state = EmptyDict THEN MissingFile ELSE ValidFile(state)
    /\ pending = EmptyDict
    /\ now = 0
    /\ faults = 0
    /\ out = Quiet
    /\ tasks = NoTasks
    /\ running = None

AccessGuild(g, owner_id, budget) ==
    \E runs \in RunsWithin(Len(get_guild_state(Context(NoFailure), g, owner_id).saves), budget) :
        Commit(get_guild_state(Context(runs), g, owner_id), "accessed", <<>>)

NextAccessor == \E owner_id \in {None, OwnerOf(1)} : AccessGuild(1, owner_id, MaxFaults - faults)
SpecAccessor == InitAccessor /\ [][NextAccessor]_vars

(***************************************************************************)
(* SpecConfirm: the self-demotion confirmations of several actors.  Both   *)
(* guilds start with users 2 and 3 as admins (guild 1 after its owner 1    *)
(* added them, guild 2 with its owner 2 and user 3) and the file holding   *)
(* that document; each step is an 'admin remove <self>' by user 2 or 3 in  *)
(* one of the guilds, or the passing of time.                              *)
(***************************************************************************)
ConfirmStart ==
    DictPut(DictPut(EmptyDict, GuildKey(1),
                    [adminIDs |-> <<1, 2, 3>>, targetIDs |-> <<>>, message |-> ""]),
            GuildKey(2), [adminIDs |-> <<2, 3>>, targetIDs |-> <<>>, message |-> ""])

InitConfirm ==
    /\ state = ConfirmStart
    /\ disk = ValidFile(ConfirmStart)
    /\ pending = EmptyDict
    /\ now = 0
    /\ faults = 0
    /\ out = Quiet
    /\ tasks = NoTasks
    /\ running = None

NextConfirm ==
    \/ \E g \in Guilds : \E e \in {2, 3} : AdminCommand(g, e, "remove", e, 0)
    \/ \E d \in TimeSteps : Tick(d)
SpecConfirm == InitConfirm /\ [][NextConfirm]_vars

(***************************************************************************)
(* SpecInterleave: handler coroutines dispatched concurrently on the one   *)
(* event loop.  A handler is cut into its stages: check (authorization,    *)
(* accessor and validation), mutate (the change of the guild's record),    *)
(* save (save_state with its retries and sleeps), send (the response or    *)
(* reply) and sending (suspended until the send completes).  Awaits tells  *)
(* after which stage the code has an await, where the loop may run another *)
(* coroutine; time.sleep in save_state blocks the loop and is no await.    *)
(* The commands are those of owner 1 in guild 1 on user 2 and target 3,    *)
(* and messages written by user 3.                                         *)
(***************************************************************************)
TaskKinds == {"admin_add", "admin_remove", "target_add", "message"}
Awaits_EveryStage(stage) == TRUE
Awaits(stage) == stage = "send"

TaskRun(c, kind) ==
    CASE kind = "admin_add" -> admin_command(c, 1, 1, "add", 2, now)
      [] kind = "admin_remove" -> admin_command(c, 1, 1, "remove", 2, now)
      [] kind = "target_add" -> target_command(c, 1, 1, "add", 3)
      [] OTHER -> LET r == on_message(c, 1, 3)
                  IN  [c |-> r.c, resp |-> IF r.replies = <<>> THEN "" ELSE r.replies[1]]
TaskAccess(c, kind) ==
    IF kind = "target_add" THEN get_guild_state(c, 1, OwnerOf(1))
    ELSE get_guild_state(c, 1, None)
TaskMutate(doc, kind) ==
    CASE kind = "admin_add" -> [doc EXCEPT ![GuildKey(1)].adminIDs = Append(@, 2)]
      [] kind = "admin_remove" ->
             IF 2 \in Elems(doc[GuildKey(1)].adminIDs)
             THEN [doc EXCEPT ![GuildKey(1)].adminIDs = ListRemove(@, 2)]
             ELSE doc
      [] OTHER -> [doc EXCEPT ![GuildKey(1)].targetIDs = Append(@, 3)]
TaskMutates(resp) == resp \in {"admin_added", "admin_removed", "target_added"}

Yield(t, stage) == running' = IF Awaits(stage) THEN None ELSE t

Dispatch(t, kind) ==
    /\ tasks[t].pc = "idle"
    /\ tasks' = [tasks EXCEPT ![t] = [pc |-> "check", kind |-> kind, resp |-> ""]]
    /\ UNCHANGED <<state, disk, pending, now, faults, out, running>>

StageCheck(t) ==
    /\ tasks[t].pc = "check"
    /\ running \in {None, t}
    /\ LET dry == TaskRun(Context(NoFailure), tasks[t].kind)
           acc == TaskAccess(Context(NoFailure), tasks[t].kind)
       IN  IF TaskMutates(dry.resp)
           THEN /\ state' = acc.state
                /\ disk' = acc.disk
                /\ pending' = acc.pending
                /\ tasks' = [tasks EXCEPT ![t].pc = "mutate", ![t].resp = dry.resp]
                /\ Yield(t, "check")
           ELSE /\ state' = dry.c.state
                /\ disk' = dry.c.disk
                /\ pending' = dry.c.pending
                /\ IF dry.resp = ""
                   THEN tasks' = [tasks EXCEPT ![t] = IdleTask] /\ running' = None
                   ELSE tasks' = [tasks EXCEPT ![t].pc = "send", ![t].resp = dry.resp]
                        /\ Yield(t, "check")
    /\ UNCHANGED <<now, faults, out>>

StageMutate(t) ==
    /\ tasks[t].pc = "mutate"
    /\ running \in {None, t}
    /\ state' = TaskMutate(state, tasks[t].kind)
    /\ tasks' = [tasks EXCEPT ![t].pc = "save",
                              ![t].resp = IF TaskMutate(state, tasks[t].kind) = state
                                          THEN "ValueError" ELSE @]
    /\ Yield(t, "mutate")
    /\ UNCHANGED <<disk, pending, now, faults, out>>

StageSave(t) ==
    /\ tasks[t].pc = "save"
    /\ running \in {None, t}
    /\ disk' = save_state(Context(NoFailure)).disk
    /\ tasks' = [tasks EXCEPT ![t].pc = "send"]
    /\ Yield(t, "save")
    /\ UNCHANGED <<state, pending, now, faults, out>>

StageSend(t) ==
    /\ tasks[t].pc = "send"
    /\ running \in {None, t}
    /\ out' = [Quiet EXCEPT !.resp = tasks[t].resp]
    /\ tasks' = [tasks EXCEPT ![t].pc = "sending"]
    /\ Yield(t, "send")
    /\ UNCHANGED <<state, disk, pending, now, faults>>

StageReturn(t) ==
    /\ tasks[t].pc = "sending"
    /\ running \in {None, t}
    /\ tasks' = [tasks EXCEPT ![t] = IdleTask]
    /\ running' = None
    /\ UNCHANGED <<state, disk, pending, now, faults, out>>

NextInterleave ==
    \/ \E t \in 1..MaxTasks : \E kind \in TaskKinds : Dispatch(t, kind)
    \/ \E t \in 1..MaxTasks : StageCheck(t)
    \/ \E t \in 1..MaxTasks : StageMutate(t)
    \/ \E t \in 1..MaxTasks : StageSave(t)
    \/ \E t \in 1..MaxTasks : StageSend(t)
    \/ \E t \in 1..MaxTasks : StageReturn(t)
SpecInterleave == Init /\ [][NextInterleave]_vars

(***************************************************************************)
(* Shorthands for the properties.                                          *)
(***************************************************************************)
Here == Context(NoFailure)
Admins(g) == IF GuildKey(g) \in DOMAIN state THEN state[GuildKey(g)].adminIDs ELSE <<>>
Targets(g) == IF GuildKey(g) \in DOMAIN state THEN state[GuildKey(g)].targetIDs ELSE <<>>
Message(g) == IF GuildKey(g) \in DOMAIN state THEN state[GuildKey(g)].message ELSE ""
Count(l, x) == Cardinality({i \in 1..Len(l) : l[i] = x})
NoRepeat(l) == \A i, j \in 1..Len(l) : l[i] = l[j] => i = j
Authorized(g, e) == e = OwnerOf(g) \/ e \in Elems(Admins(g))

\* C1: the owner of every guild is an admin in every reachable state, also
\* before the guild has a record; an "admin remove" of the owner by any
\* authorized executor, the owner included, is answered with
\* cannot-remove-owner and takes the owner out of no adminIDs list.
C1_OwnerIsAdmin ==
    \A g \in Guilds : is_admin(Here, g, OwnerOf(g), OwnerOf(g)).ret
C1_RemoveOwnerRejected ==
    \A g \in Guilds : \A e \in Executors(g) :
        Authorized(g, e) =>
            LET r == admin_command(Here, g, e, "remove", OwnerOf(g), now)
            IN  /\ r.resp = "cannot_remove_owner"
                /\ Count(r.c.state[GuildKey(g)].adminIDs, OwnerOf(g))
                     >= Count(Admins(g), OwnerOf(g))
                /\ is_admin(r.c, g, OwnerOf(g), OwnerOf(g)).ret
C1_OwnerSupremacy == C1_OwnerIsAdmin /\ C1_RemoveOwnerRejected
C1_Witness ==
    /\ out.resp = "cannot_remove_owner"
    /\ Admins(1) = <<2, 1>>

\* C2: in every reachable state no adminIDs and no targetIDs list holds a user
\* id twice, and an add of an id that is already in the list is answered with
\* the already-present response and appends nothing.
C2_NoRepeat ==
    \A g \in Guilds : NoRepeat(Admins(g)) /\ NoRepeat(Targets(g))
C2_AddRejected ==
    \A g \in Guilds : \A e \in Executors(g) :
        Authorized(g, e) =>
            /\ \A u \in AdminArgs(g) :
                   u \in Elems(Admins(g)) =>
                       LET r == admin_command(Here, g, e, "add", u, now)
                       IN  /\ r.resp = "already_admin"
                           /\ Count(r.c.state[GuildKey(g)].adminIDs, u) = 1
            /\ \A u \in TargetArgs(g) :
                   u \in Elems(Targets(g)) =>
                       LET r == target_command(Here, g, e, "add", u)
                       IN  /\ r.resp = "already_target"
                           /\ r.c.state[GuildKey(g)].targetIDs = Targets(g)
C2_NoDuplicateMembership == C2_NoRepeat /\ C2_AddRejected
C2_Witness ==
    /\ out.resp = "already_admin"
    /\ Admins(1) = <<1, 2>>
    /\ Targets(1) = <<3>>
    /\ Admins(2) = <<3, 2>>

\* C5: a message in a guild from an author other than the client itself gets
\* exactly one reply, the guild's configured message, when the author is in
\* targetIDs and the message is not empty; every other message event (author
\* not a target, empty message, the client's own message, no guild) gets none.
C5_Expected(g, author) ==
    IF g # None /\ author # ClientUser /\ author \in Elems(Targets(g)) /\ Message(g) # ""
    THEN <<Message(g)>>
    ELSE <<>>
C5_AutoReplyGating ==
    \A g \in Guilds \cup {None} : \A author \in Authors(1) \cup Authors(2) :
        on_message(Here, g, author).replies = C5_Expected(g, author)
C5_Witness ==
    /\ out.replies = <<"pong">>
    /\ Targets(1) = <<3>>

\* C3: for a non-owner admin a, "admin remove a" by a with no pending entry
\* records the entry with the current time, answers with the prompt and
\* removes nothing; with an entry at most 60 seconds old (60 included) it
\* removes a and deletes the entry; with an older entry it removes nothing
\* and replaces the entry by one stamped with the current time.  "Removes
\* nothing" as the code has it: adminIDs is as before, or as before with the
\* missing owner appended by the accessor.
C3_SelfRemove(g, a) == admin_command(Here, g, a, "remove", a, now)
C3_AdminsAfter(g, a) == C3_SelfRemove(g, a).c.state[GuildKey(g)].adminIDs
C3_Prompted(g, a) ==
    /\ C3_SelfRemove(g, a).resp = "confirm_prompt"
    /\ C3_SelfRemove(g, a).c.pending = DictPut(pending, ConfirmationKey(g, a), now)
C3_Removed(g, a) ==
    /\ C3_SelfRemove(g, a).resp = "self_removed"
    /\ a \notin Elems(C3_AdminsAfter(g, a))
    /\ C3_SelfRemove(g, a).c.pending = DictDel(pending, ConfirmationKey(g, a))
C3_Cases(g, a, Kept(_, _)) ==
    IF ConfirmationKey(g, a) \notin DOMAIN pending
    THEN C3_Prompted(g, a) /\ Kept(g, a)
    ELSE IF now - pending[ConfirmationKey(g, a)] <= 60
         THEN C3_Removed(g, a)
         ELSE C3_Prompted(g, a) /\ Kept(g, a)
C3_KeptOrHealed(g, a) ==
    \/ C3_AdminsAfter(g, a) = Admins(g)
    \/ /\ OwnerOf(g) \notin Elems(Admins(g))
       /\ C3_AdminsAfter(g, a) = Append(Admins(g), OwnerOf(g))
C3_Unchanged(g, a) == C3_AdminsAfter(g, a) = Admins(g)
C3_ConfirmationWindow ==
    \A g \in Guilds : \A a \in Executors(g) :
        (a # OwnerOf(g) /\ a \in Elems(Admins(g))) => C3_Cases(g, a, C3_KeptOrHealed)
\* C3 as stated: the first request and the expired repeat leave adminIDs unchanged.
C3_AsStated ==
    \A g \in Guilds : \A a \in Executors(g) :
        (a # OwnerOf(g) /\ a \in Elems(Admins(g))) => C3_Cases(g, a, C3_Unchanged)
C3_Witness ==
    /\ out.resp = "self_removed"
    /\ now = 60
    /\ 2 \notin Elems(Admins(1))
    /\ pending = EmptyDict

\* C4: an admin, target or setmessage command by an executor who is neither
\* the owner nor in adminIDs is answered with no-permission and leaves the
\* confirmation map as it was; the command's own mutation is not attempted.
\* What the authorization check itself does stays: the accessor creates the
\* guild's default record (owner as only admin) or appends the missing owner
\* to adminIDs and saves, so targetIDs and message are as before, adminIDs
\* changes at most by that append, and the file changes only with that append.
C4_Results(g, e, runs) ==
    {admin_command(Context(runs), g, e, a, u, now) : a \in {"add", "remove"}, u \in AdminArgs(g)}
    \cup {target_command(Context(runs), g, e, a, u) : a \in {"add", "remove"}, u \in TargetArgs(g)}
    \cup {setmessage_command(Context(runs), g, e, text) : text \in Texts(g)}
C4_AccessorOnly(g, r) ==
    LET key == GuildKey(g)
        owner == OwnerOf(g)
        appended == /\ key \in DOMAIN state
                    /\ owner \notin Elems(state[key].adminIDs)
                    /\ r.c.state = [state EXCEPT ![key].adminIDs = Append(@, owner)]
        created == /\ key \notin DOMAIN state
                   /\ r.c.state = DictPut(state, key,
                          [adminIDs |-> <<owner>>, targetIDs |-> <<>>, message |-> ""])
    IN  /\ r.c.state = state \/ appended \/ created
        /\ r.c.disk = disk \/ (appended /\ r.c.disk \in {ValidFile(r.c.state), CorruptFile})
C4_Untouched(g, r) == r.c.state = state /\ r.c.disk = disk
C4_Gate(Frame(_, _)) ==
    \A g \in Guilds : \A e \in Executors(g) :
        ~Authorized(g, e) =>
            \A runs \in RunsWithin(Len(is_admin(Here, g, e, OwnerOf(g)).c.saves),
                                   MaxFaults - faults) :
                \A r \in C4_Results(g, e, runs) :
                /\ r.resp = "no_permission"
                /\ r.c.pending = pending
                /\ Frame(g, r)
C4_AuthorizationGate == C4_Gate(C4_AccessorOnly)
\* C4 as stated: the state dict and the file are the same after the command.
C4_AsStated == C4_Gate(C4_Untouched)
C4_Witness ==
    /\ out.resp = "no_permission"
    /\ Len(out.saves) = 1
    /\ out.saves[1].raised
    /\ Admins(1) = <<2, 1>>
    /\ disk = CorruptFile

\* C6: save_state makes its write attempts one after another and stops at the
\* first success; it makes at most 3 attempts; when all 3 fail it raises after
\* exactly 3 attempts; a delay separates consecutive attempts and none follows
\* the last; a failure followed by a success returns after exactly 2 attempts.
C6_Writes(trace) == SelectSeq(trace, LAMBDA x : x # "sleep")
C6_FirstOk(run) ==
    IF \E i \in 1..3 : run[i] = "ok"
    THEN CHOOSE i \in 1..3 : run[i] = "ok" /\ \A j \in 1..(i - 1) : run[j] # "ok"
    ELSE 0
C6_Shape(trace, raised) ==
    LET w == C6_Writes(trace)
    IN  /\ Len(w) \in 1..3
        /\ \A j \in 1..(Len(w) - 1) : w[j] # "ok"
        /\ raised <=> (Len(w) = 3 /\ w[3] # "ok")
        /\ ~raised => w[Len(w)] = "ok"
        /\ Len(trace) = 2 * Len(w) - 1
        /\ \A j \in 1..Len(trace) : (trace[j] = "sleep") <=> (j % 2 = 0)
C6_PersistenceRetry ==
    /\ \A i \in 1..Len(out.saves) : C6_Shape(out.saves[i].trace, out.saves[i].raised)
    /\ \A run \in Runs :
           LET r == SaveAttempts(state, disk, run, 0, <<>>)
               w == C6_Writes(r.trace)
               k == C6_FirstOk(run)
           IN  /\ C6_Shape(r.trace, r.raised)
               /\ \A j \in 1..Len(w) : w[j] = run[j]
               /\ k # 0 => (Len(w) = k /\ ~r.raised /\ r.file = ValidFile(state))
               /\ k = 0 => (Len(w) = 3 /\ r.raised)
C6_Witness ==
    /\ out.resp = "save_failed"
    /\ Len(out.saves) = 1
    /\ out.saves[1].raised
    /\ Len(out.saves[1].trace) = 5
    /\ faults = 3

\* C7: for every mutating command (admin add, admin remove of another user,
\* confirmed self-demotion, target add, target remove, setmessage), when the
\* command's save_state exhausts its retries the actor gets the failed-to-save
\* response and not the success response, and the command's in-memory
\* mutation stays applied; when the save succeeds the actor gets the success
\* response.
C7_Success ==
    {"admin_added", "admin_removed", "self_removed",
     "target_added", "target_removed", "message_set"}
C7_Exhausted(saves) ==
    /\ Len(saves) >= 1
    /\ \A j \in 1..Len(saves[Len(saves)].trace) : saves[Len(saves)].trace[j] # "ok"
C7_Applied(doc, g, cmd) ==
    LET rec == doc[GuildKey(g)]
    IN  CASE cmd.name = "admin" /\ cmd.action = "add" -> cmd.user \in Elems(rec.adminIDs)
          [] cmd.name = "admin" /\ cmd.action = "remove" -> cmd.user \notin Elems(rec.adminIDs)
          [] cmd.name = "target" /\ cmd.action = "add" -> cmd.user \in Elems(rec.targetIDs)
          [] cmd.name = "target" /\ cmd.action = "remove" -> cmd.user \notin Elems(rec.targetIDs)
          [] OTHER -> rec.message = cmd.text
C7_Commands(g) ==
    {[name |-> "admin", action |-> a, user |-> u, text |-> ""] :
        a \in {"add", "remove"}, u \in AdminArgs(g)}
    \cup {[name |-> "target", action |-> a, user |-> u, text |-> ""] :
        a \in {"add", "remove"}, u \in TargetArgs(g)}
    \cup {[name |-> "setmessage", action |-> "", user |-> None, text |-> text] :
        text \in Texts(g)}
C7_Run(c, g, e, cmd) ==
    CASE cmd.name = "admin" -> admin_command(c, g, e, cmd.action, cmd.user, now)
      [] cmd.name = "target" -> target_command(c, g, e, cmd.action, cmd.user)
      [] OTHER -> setmessage_command(c, g, e, cmd.text)
C7_FailClosed ==
    \A g \in Guilds : \A e \in Executors(g) : \A cmd \in C7_Commands(g) :
        LET dry == C7_Run(Here, g, e, cmd)
        IN  dry.resp \in C7_Success =>
                \A runs \in RunsWithin(Len(dry.c.saves), MaxFaults - faults) :
                    LET r == C7_Run(Context(runs), g, e, cmd)
                    IN  /\ C7_Applied(r.c.state, g, cmd)
                        /\ r.c.state = dry.c.state
                        /\ r.c.pending = dry.c.pending
                        /\ IF C7_Exhausted(r.c.saves)
                           THEN r.resp = "save_failed"
                           ELSE r.resp = dry.resp /\ r.c.disk = ValidFile(r.c.state)
C7_Witness ==
    /\ out.resp = "save_failed"
    /\ Len(out.saves) = 1
    /\ Message(1) = "pong"
    /\ disk # ValidFile(state)
    /\ disk.kind = "valid"
    /\ disk.doc["1"].message = ""

\* C8: the example scenario for tenant 1 with owner O = 1, U1 = 2, U2 = 3,
\* from an empty state document: 'admin add U1' by O succeeds and leaves
\* adminIDs = [U1]; 'admin remove O' by U1 is rejected as cannot-remove-owner
\* (and the accessor appends O); 'target add U2' by U1 succeeds; with message
\* "pong" a message from U2 gets the single reply "pong"; 'admin remove U1' by
\* U1 prompts and removes nothing; the immediate repeat removes U1 and leaves
\* adminIDs = [O].
C8_Doc(admins, targets, message) ==
    DictPut(EmptyDict, GuildKey(1),
            [adminIDs |-> admins, targetIDs |-> targets, message |-> message])
C8_Scenario(final) ==
    /\ state = EmptyDict =>
           LET r == admin_command(Here, 1, 1, "add", 2, now)
           IN  r.resp = "admin_added" /\ r.c.state = C8_Doc(<<2>>, <<>>, "")
    /\ state = C8_Doc(<<2>>, <<>>, "") =>
           LET r == admin_command(Here, 1, 2, "remove", 1, now)
           IN  r.resp = "cannot_remove_owner" /\ r.c.state = C8_Doc(<<2, 1>>, <<>>, "")
    /\ state = C8_Doc(<<2, 1>>, <<>>, "") =>
           LET r == target_command(Here, 1, 2, "add", 3)
           IN  r.resp = "target_added" /\ r.c.state = C8_Doc(<<2, 1>>, <<3>>, "")
    /\ state = C8_Doc(<<2, 1>>, <<3>>, "") =>
           LET r == setmessage_command(Here, 1, 2, "pong")
           IN  r.resp = "message_set" /\ r.c.state = C8_Doc(<<2, 1>>, <<3>>, "pong")
    /\ state = C8_Doc(<<2, 1>>, <<3>>, "pong") =>
           LET r == on_message(Here, 1, 3)
           IN  r.replies = <<"pong">> /\ r.c.state = state
    /\ (state = C8_Doc(<<2, 1>>, <<3>>, "pong") /\ ConfirmationKey(1, 2) \notin DOMAIN pending) =>
           LET r == admin_command(Here, 1, 2, "remove", 2, now)
           IN  /\ r.resp = "confirm_prompt"
               /\ r.c.state = state
               /\ r.c.pending = DictPut(pending, ConfirmationKey(1, 2), now)
    /\ (/\ state = C8_Doc(<<2, 1>>, <<3>>, "pong")
        /\ ConfirmationKey(1, 2) \in DOMAIN pending
        /\ pending[ConfirmationKey(1, 2)] = now) =>
           LET r == admin_command(Here, 1, 2, "remove", 2, now)
           IN  /\ r.resp = "self_removed"
               /\ r.c.state = C8_Doc(final, <<3>>, "pong")
               /\ ConfirmationKey(1, 2) \notin DOMAIN r.c.pending
C8_ExampleScenario == C8_Scenario(<<1>>)
\* C8 as stated: the scenario ends with adminIDs = [].
C8_AsStated == C8_Scenario(<<>>)
C8_Witness ==
    /\ out.resp = "self_removed"
    /\ state = C8_Doc(<<1>>, <<3>>, "pong")
    /\ pending = EmptyDict

\* C9: calling get_guild_state N >= 1 times with the same tenant id and owner
\* id yields an adminIDs list that holds the owner id exactly once and every
\* id it held before in the same relative order; the calls after the first
\* change nothing (state dict, file, save attempts).
RECURSIVE C9_Calls(_, _, _, _)
C9_Calls(c, guild_id, owner_id, n) ==
    IF n = 0 THEN c
    ELSE C9_Calls(get_guild_state(c, guild_id, owner_id), guild_id, owner_id, n - 1)
C9_Kept(before, after) ==
    SelectSeq(after, LAMBDA x : x \in Elems(before)) = before
C9_SelfHealingIdempotence ==
    \A g \in Guilds : \A runs \in RunsWithin(2, MaxFaults - faults) : \A n \in 1..MaxCalls :
        LET owner == OwnerOf(g)
            first == get_guild_state(Context(runs), g, owner)
            last == C9_Calls(Context(runs), g, owner, n)
            after == last.state[GuildKey(g)].adminIDs
        IN  /\ Count(after, owner) = 1
            /\ C9_Kept(Admins(g), after)
            /\ Elems(after) = Elems(Admins(g)) \cup {owner}
            /\ last = first
            /\ \A k \in DOMAIN state : k # GuildKey(g) => last.state[k] = state[k]
C9_Witness ==
    /\ out.resp = "accessed"
    /\ Len(out.saves) = 1
    /\ out.saves[1].raised
    /\ Admins(1) = <<2, 3, 1>>
    /\ disk = CorruptFile

\* C10: save_state replaces the file atomically: the file never holds an empty
\* or partial document, and after a save that fails a restart loads the
\* document the file held before the save.
C10_AtomicOverwrite ==
    /\ disk.kind # "corrupt"
    /\ \A run \in Runs :
           LET r == SaveAttempts(state, disk, run, 0, <<>>)
           IN  r.raised => load_state(r.file, TRUE) = load_state(disk, TRUE)

\* C11: load_state raises no error whatever the file is: it returns the
\* stored document when the file holds a valid one and can be read, and the
\* empty document when the file is missing, malformed or unreadable; so the
\* ready event never ends with a load error.
C11_LoadNeverFails ==
    /\ out.resp # "load_error"
    /\ \A readable \in BOOLEAN :
           LET r == LoadResult(disk, readable)
           IN  /\ ~r.raised
               /\ (disk.kind = "valid" /\ readable) => r.doc = disk.doc
               /\ (disk.kind \in {"missing", "corrupt"} \/ ~readable) => r.doc = EmptyDict
               /\ DOMAIN r.doc \subseteq {GuildKey(g) : g \in Guilds}
C11_Witness ==
    /\ out = Quiet
    /\ disk = CorruptFile
    /\ state = EmptyDict
    /\ faults = MaxFaults

\* C12: an admin or target command by an authorized actor that fails
\* validation (add of a bot, add of an id already present or of the owner as
\* admin, remove of an id not in the list, removal of the owner) gets the
\* matching rejection, and the command itself mutates and saves nothing:
\* targetIDs, message and the confirmation map are as before.  What the
\* accessor does stays: the guild's record is created if absent, and a record
\* whose adminIDs lacks the owner gets the owner appended and a save attempted,
\* so adminIDs and the file change at most by that append.
C12_Expected(g, name, action, u) ==
    CASE name = "admin" /\ action = "add" /\ IsBot(u) -> "cannot_add_bot_admin"
      [] name = "admin" /\ action = "add" /\ ~IsBot(u)
             /\ (u \in Elems(Admins(g)) \/ u = OwnerOf(g)) -> "already_admin"
      [] name = "admin" /\ action = "remove" /\ u = OwnerOf(g) -> "cannot_remove_owner"
      [] name = "admin" /\ action = "remove" /\ u # OwnerOf(g)
             /\ u \notin Elems(Admins(g)) -> "not_an_admin"
      [] name = "target" /\ action = "add" /\ IsBot(u) -> "cannot_add_bot_target"
      [] name = "target" /\ action = "add" /\ ~IsBot(u)
             /\ u \in Elems(Targets(g)) -> "already_target"
      [] name = "target" /\ action = "remove" /\ u \notin Elems(Targets(g)) -> "not_a_target"
      [] OTHER -> "valid"
C12_Run(c, g, e, name, action, u) ==
    IF name = "admin" THEN admin_command(c, g, e, action, u, now)
    ELSE target_command(c, g, e, action, u)
C12_Args(g, name) == IF name = "admin" THEN AdminArgs(g) ELSE TargetArgs(g)
C12_AccessorOnly(g, r) ==
    LET key == GuildKey(g)
        owner == OwnerOf(g)
        appended == /\ key \in DOMAIN state
                    /\ owner \notin Elems(state[key].adminIDs)
                    /\ r.c.state = [state EXCEPT ![key].adminIDs = Append(@, owner)]
        created == /\ key \notin DOMAIN state
                   /\ \E admins \in {<<>>, <<owner>>} :
                          r.c.state = DictPut(state, key,
                              [adminIDs |-> admins, targetIDs |-> <<>>, message |-> ""])
    IN  /\ r.c.state = state \/ appended \/ created
        /\ r.c.disk = disk \/ (appended /\ r.c.disk \in {ValidFile(r.c.state), CorruptFile})
        /\ Len(r.c.saves) = IF appended THEN 1 ELSE 0
C12_Same(g, r) ==
    /\ GuildKey(g) \in DOMAIN state => r.c.state = state
    /\ r.c.disk = disk
    /\ r.c.saves = <<>>
C12_Rejections(Frame(_, _)) ==
    \A g \in Guilds : \A e \in Executors(g) : \A name \in {"admin", "target"} :
        \A action \in {"add", "remove"} : \A u \in C12_Args(g, name) :
            (Authorized(g, e) /\ C12_Expected(g, name, action, u) # "valid") =>
                \A runs \in RunsWithin(Len(C12_Run(Here, g, e, name, action, u).c.saves),
                                       MaxFaults - faults) :
                    LET r == C12_Run(Context(runs), g, e, name, action, u)
                    IN  /\ r.resp = C12_Expected(g, name, action, u)
                        /\ r.c.pending = pending
                        /\ Frame(g, r)
C12_ValidationRejections == C12_Rejections(C12_AccessorOnly)
\* C12 as stated: no save is attempted, and the tenant's record and the file
\* are the same after the command.
C12_AsStated == C12_Rejections(C12_Same)
C12_Witness ==
    /\ out.resp = "cannot_add_bot_admin"
    /\ Len(out.saves) = 1
    /\ Admins(1) = <<2, 1>>
    /\ disk = ValidFile(state)

\* C13: a successful save_state writes the whole in-memory document: in the
\* state where a command has sent its success response the file holds exactly
\* the in-memory document, whatever earlier failed saves left in the file;
\* and from every state, diverged or not, a command of another tenant whose
\* save succeeds leaves the file equal to the in-memory document.
C13_Convergence ==
    /\ out.resp \in C7_Success => disk = ValidFile(state)
    /\ \A i \in 1..Len(out.saves) :
           (i = Len(out.saves) /\ ~out.saves[i].raised) => disk = ValidFile(state)
    /\ \A g \in Guilds \ {1} : \A e \in Executors(g) : \A cmd \in C7_Commands(g) :
           \A runs \in RunsWithin(Len(C7_Run(Here, g, e, cmd).c.saves), MaxFaults - faults) :
               LET r == C7_Run(Context(runs), g, e, cmd)
               IN  r.resp \in C7_Success =>
                       /\ r.c.disk = ValidFile(r.c.state)
                       /\ \A k \in DOMAIN state : k \in DOMAIN r.c.disk.doc
C13_Witness ==
    /\ out.resp = "target_added"
    /\ Len(out.saves) = 2
    /\ out.saves[1].raised
    /\ out.saves[2].trace = <<"ok">>
    /\ disk = ValidFile(state)
    /\ Admins(1) = <<2, 1>>

\* C14: is_admin(user) is true exactly when user is the owner or is in
\* adminIDs; a user who is neither gets no-permission for every admin, target
\* and setmessage command and is still not in adminIDs afterwards; and once a
\* non-owner admin has been removed (by another admin or by a confirmed
\* self-demotion) every command that user issues next gets no-permission,
\* until an authorized actor adds the user again.
C14_Later(c, g, e) ==
    LET c0 == [c EXCEPT !.saves = <<>>, !.raised = FALSE]
    IN  {admin_command(c0, g, e, a, u, now) : a \in {"add", "remove"}, u \in AdminArgs(g)}
        \cup {target_command(c0, g, e, a, u) : a \in {"add", "remove"}, u \in TargetArgs(g)}
        \cup {setmessage_command(c0, g, e, text) : text \in Texts(g)}
C14_Denied(c, g, e) ==
    \A r \in C14_Later(c, g, e) :
        /\ r.resp = "no_permission"
        /\ e \notin Elems(r.c.state[GuildKey(g)].adminIDs)
C14_RevocationTakesEffect ==
    \A g \in Guilds : \A e \in Executors(g) :
        /\ is_admin(Here, g, e, OwnerOf(g)).ret <=> Authorized(g, e)
        /\ ~Authorized(g, e) => C14_Denied(Here, g, e)
        /\ \A u \in AdminArgs(g) :
               (Authorized(g, e) /\ u # OwnerOf(g) /\ u \in Elems(Admins(g))) =>
                   LET r == admin_command(Here, g, e, "remove", u, now)
                   IN  IF r.resp \in {"admin_removed", "self_removed"}
                       THEN /\ u \notin Elems(r.c.state[GuildKey(g)].adminIDs)
                            /\ ~is_admin(r.c, g, u, OwnerOf(g)).ret
                            /\ C14_Denied(r.c, g, u)
                            /\ \A b \in Executors(g) \ {u} :
                                   is_admin(r.c, g, b, OwnerOf(g)).ret =>
                                       LET back == admin_command(
                                                       [r.c EXCEPT !.saves = <<>>, !.raised = FALSE],
                                                       g, b, "add", u, now)
                                       IN  /\ back.resp = "admin_added"
                                           /\ is_admin(back.c, g, u, OwnerOf(g)).ret
                       ELSE r.resp = "confirm_prompt" /\ u = e
C14_Witness ==
    /\ out.resp = "no_permission"
    /\ GuildKey(1) \notin DOMAIN state
    /\ ConfirmationKey(2, 3) \in DOMAIN pending
    /\ 3 \notin Elems(Admins(2))

\* C15: when get_guild_state appends the missing owner to an existing record
\* it attempts a save at once, and when that save exhausts its retries the
\* calling handler goes on: it gives the same response and leaves the same
\* in-memory state and confirmation map as when that save succeeds.
C15_Events(g) ==
    {[name |-> cmd.name, action |-> cmd.action, user |-> cmd.user, text |-> cmd.text,
      by |-> e] : cmd \in C7_Commands(g), e \in Executors(g)}
    \cup {[name |-> "info", action |-> "", user |-> None, text |-> "", by |-> None]}
    \cup {[name |-> "message", action |-> "", user |-> None, text |-> "", by |-> a] :
             a \in Authors(g)}
C15_Run(c, g, ev) ==
    CASE ev.name = "info" -> info_command(c, g)
      [] ev.name = "message" ->
             [c |-> on_message(c, g, ev.by).c, resp |-> on_message(c, g, ev.by).replies]
      [] OTHER -> C7_Run(c, g, ev.by, ev)
C15_Healed(g, r) ==
    /\ GuildKey(g) \in DOMAIN state
    /\ OwnerOf(g) \notin Elems(Admins(g))
    /\ OwnerOf(g) \in Elems(r.c.state[GuildKey(g)].adminIDs)
C15_HealFails(runs) == \A i \in 1..MAX_SAVE_RETRIES : runs[1][i] # "ok"
C15_BestEffortHealing ==
    \A g \in Guilds : \A ev \in C15_Events(g) :
        C15_Healed(g, C15_Run(Here, g, ev)) =>
            /\ Len(C15_Run(Here, g, ev).c.saves) >= 1
            /\ C15_Run(Here, g, ev).c.saves[1].trace = <<"ok">>
            /\ \A runs \in RunsWithin(2, MaxFaults - faults) :
                   C15_HealFails(runs) =>
                       LET failed == C15_Run(Context(runs), g, ev)
                           saved == C15_Run(Context(<<AllOk, runs[2]>>), g, ev)
                       IN  /\ failed.c.saves[1].raised
                           /\ failed.resp = saved.resp
                           /\ failed.c.state = saved.c.state
                           /\ failed.c.pending = saved.c.pending
                           /\ Len(failed.c.saves) = Len(saved.c.saves)
C15_Witness ==
    /\ out.resp = "message_set"
    /\ Len(out.saves) = 2
    /\ out.saves[1].raised
    /\ Message(1) = "pong"
    /\ Admins(1) = <<2, 1>>

\* C16: request_confirmation, check_confirmation and clear_confirmation for
\* (g, a) never create, change or delete the pending entry of another key;
\* clear_confirmation on a key without an entry changes nothing; and an admin
\* without an entry of their own gets the first-step prompt and stays admin,
\* whatever entries other actors of the guild, or the same actor in another
\* guild, have.
C16_Key(g, a) == ToString(g) \o "_" \o ToString(a)
C16_Keys == {C16_Key(g, a) : g \in Guilds, a \in {1, 2, 3}}
C16_OthersKept(after, key) ==
    /\ DOMAIN after \subseteq C16_Keys
    /\ \A k \in C16_Keys \ {key} :
           /\ k \in DOMAIN after <=> k \in DOMAIN pending
           /\ k \in DOMAIN pending => after[k] = pending[k]
C16_ConfirmationIsolation ==
    \A g \in Guilds : \A a \in {1, 2, 3} :
        LET key == C16_Key(g, a)
            requested == request_confirmation(Here, g, a, now)
            checked == check_confirmation(Here, g, a, now)
            cleared == clear_confirmation(Here, g, a)
        IN  /\ C16_OthersKept(requested.pending, key)
            /\ key \in DOMAIN requested.pending /\ requested.pending[key] = now
            /\ C16_OthersKept(checked.c.pending, key)
            /\ C16_OthersKept(cleared.pending, key)
            /\ key \notin DOMAIN cleared.pending
            /\ key \notin DOMAIN pending =>
                   /\ cleared.pending = pending
                   /\ ~checked.ret
                   /\ checked.c.pending = pending
            /\ (key \notin DOMAIN pending /\ a # OwnerOf(g) /\ a \in Elems(Admins(g))) =>
                   LET r == admin_command(Here, g, a, "remove", a, now)
                   IN  /\ r.resp = "confirm_prompt"
                       /\ r.c.state = state
                       /\ C16_OthersKept(r.c.pending, key)
C16_Witness ==
    /\ out.resp = "confirm_prompt"
    /\ DOMAIN pending = {C16_Key(1, 2), C16_Key(1, 3), C16_Key(2, 3)}
    /\ pending[C16_Key(1, 2)] = 0
    /\ pending[C16_Key(2, 3)] = 30
    /\ pending[C16_Key(1, 3)] = 61
    /\ now = 61

\* C17: a handler runs its check, mutation and save without yielding: a
\* coroutine that has started and not yet issued its send holds the event
\* loop, so while the loop is free no record is mutated and unsaved, no two
\* handlers are inside mutate-persist together, no list gets an id twice and
\* no removal finds its id gone.
C17_Inside == {"mutate", "save", "send"}
C17_NoInterleaving ==
    /\ \A t \in 1..MaxTasks : tasks[t].pc \in C17_Inside => running = t
    /\ running = None =>
           \A t \in 1..MaxTasks : tasks[t].pc \in {"idle", "check", "sending"}
    /\ \A t, u \in 1..MaxTasks :
           (tasks[t].pc \in C17_Inside /\ tasks[u].pc \in C17_Inside) => t = u
    /\ \A t \in 1..MaxTasks : tasks[t].pc \in {"send", "sending"} /\ TaskMutates(tasks[t].resp)
           => (running = t => disk = ValidFile(state))
    /\ NoRepeat(Admins(1)) /\ NoRepeat(Targets(1))
    /\ \A t \in 1..MaxTasks : tasks[t].resp # "ValueError"
C17_Witness ==
    /\ tasks[1].pc = "sending"
    /\ tasks[1].kind = "admin_add"
    /\ tasks[2].pc = "save"
    /\ tasks[2].kind = "admin_remove"
    /\ running = 2

\* C18: an actor's self-removal never takes effect on the first
\* 'admin remove <self>' made since that actor most recently became a member
\* of adminIDs: right after any successful 'admin add A', whatever happened
\* before (an earlier request by A, a removal of A by another admin), A's
\* 'admin remove A' only issues the prompt and A stays in adminIDs.
C18_FreshConfirmation ==
    \A g \in Guilds : \A b \in Executors(g) : \A a \in AdminArgs(g) :
        LET added == admin_command(Here, g, b, "add", a, now)
            first == admin_command([added.c EXCEPT !.saves = <<>>, !.raised = FALSE],
                                   g, a, "remove", a, now)
        IN  added.resp = "admin_added" =>
                /\ first.resp = "confirm_prompt"
                /\ a \in Elems(first.c.state[GuildKey(g)].adminIDs)

\* C19: a command, info request or message in guild g leaves the in-memory
\* record (adminIDs, targetIDs, message) of every other guild as it was,
\* creating and deleting none, and changes neither the authorization of any
\* executor nor the auto-reply to any author in another guild.
C19_Key(g) == ToString(g)
C19_After(g) ==
    {[Here EXCEPT !.state = C15_Run(Here, g, ev).c.state] : ev \in C15_Events(g)}
C19_TenantIsolation ==
    \A g \in Guilds : \A after \in C19_After(g) : \A h \in Guilds \ {g} :
        /\ C19_Key(h) \in DOMAIN after.state <=> C19_Key(h) \in DOMAIN state
        /\ C19_Key(h) \in DOMAIN state => after.state[C19_Key(h)] = state[C19_Key(h)]
        /\ \A e \in Executors(h) :
               is_admin(after, h, e, OwnerOf(h)).ret = is_admin(Here, h, e, OwnerOf(h)).ret
        /\ \A author \in Authors(h) :
               on_message(after, h, author).replies = on_message(Here, h, author).replies
C19_Witness ==
    /\ out.resp = "target_added"
    /\ Targets(1) = <<3>>
    /\ Admins(2) = <<3, 2>>
    /\ Message(1) = "pong"

\* C20: starting from the empty state document, no bot-flagged user id is
\* ever in a guild's adminIDs or targetIDs: an add of a bot by an authorized
\* executor is rejected for both lists; hence a message written by a
\* bot-flagged author never gets an auto-reply.
C20_BotsNeverMembers ==
    \A g \in Guilds :
        /\ Elems(Admins(g)) \cap BotUsers = {}
        /\ Elems(Targets(g)) \cap BotUsers = {}
        /\ \A e \in Executors(g) : Authorized(g, e) =>
               /\ \A u \in AdminArgs(g) \cap BotUsers :
                      LET r == admin_command(Here, g, e, "add", u, now)
                      IN  /\ r.resp = "cannot_add_bot_admin"
                          /\ u \notin Elems(r.c.state[GuildKey(g)].adminIDs)
               /\ \A u \in TargetArgs(g) \cap BotUsers :
                      LET r == target_command(Here, g, e, "add", u)
                      IN  /\ r.resp = "cannot_add_bot_target"
                          /\ u \notin Elems(r.c.state[GuildKey(g)].targetIDs)
        /\ \A author \in Authors(g) \cap BotUsers : on_message(Here, g, author).replies = <<>>
C20_Witness ==
    /\ out.resp = "cannot_add_bot_target"
    /\ Targets(1) = <<3>>
    /\ Message(1) = "pong"
    /\ Admins(1) = <<1, 2>>

====
